---- MODULE Spec2Model ----
(***************************************************************************)
(* A model of automl_zero/definitions.h: the overflow-checked cast         *)
(* SafeCast, the opcode conversion ConvertToOps, the guard helpers         *)
(* (PositiveOrDie, NotNullOrDie, NonEmptyOrDie, SizeLessThanOrDie), the    *)
(* hash mixer CustomHashMix and the address constants of the three typed   *)
(* memories.                                                               *)
(*                                                                         *)
(* Every function of the header is a pure function or a short loop, so     *)
(* each gets a small state machine of its own (its arguments, its locals,  *)
(* its position and its outcome) and a specification of its own:           *)
(*   SpecSafeCast, SpecConvertToOps, SpecGuards, SpecHashMix, SpecAddress. *)
(* A failed CHECK ends the process (LOG(FATAL)): the call reaches the      *)
(* position "aborted" and returns nothing.                                 *)
(*                                                                         *)
(* TLC's integers are 32 bits wide.  Values of wider C++ types are kept    *)
(* as words: an int64_t as its high word and the signed value of its low   *)
(* 32 bits, a size_t as eight bytes, least significant first.              *)
(***************************************************************************)
EXTENDS Integers, Sequences, FiniteSets, TLC

VARIABLES
    cast,      \* the SafeCast call: template arguments, value, position, result
    conv,      \* the ConvertToOps call: values, loop position, converted_values
    guard,     \* the guard-helper call: helper, argument, outcome
    hash,      \* the CustomHashMix call: numbers, loop position, mix, result,
               \* and (mixed) the numbers given to mix.Mix so far, in order
    hashLog,   \* completed CustomHashMix calls (some of them), oldest first
    addr       \* an instruction's address reference and its validation

vars == <<cast, conv, guard, hash, hashLog, addr>>

\* What a variable holds under a specification that does not use it.
Parked == [pc |-> "unused"]

----------------------------------------------------------------------------
(***************************************************************************)
(* SafeCast (definitions.h:234-240).                                      *)
(***************************************************************************)

\* The integer types SafeCast is instantiated with here: every fixed-width
\* type whose whole range a 32-bit model integer holds.
IntTypes == {"int8_t", "uint8_t", "int16_t", "uint16_t", "int32_t"}

TypeMin(T) ==
    CASE T = "int8_t"   -> -128
      [] T = "uint8_t"  -> 0
      [] T = "int16_t"  -> -32768
      [] T = "uint16_t" -> 0
      [] T = "int32_t"  -> -2147483647 - 1

TypeMax(T) ==
    CASE T = "int8_t"   -> 127
      [] T = "uint8_t"  -> 255
      [] T = "int16_t"  -> 32767
      [] T = "uint16_t" -> 65535
      [] T = "int32_t"  -> 2147483647

Representable(T, v) == TypeMin(T) <= v /\ v <= TypeMax(T)

\* How far around each type's limits, and around zero, the arguments go.
EdgeWidth == 2

\* The arguments tried: the neighbourhood of zero and of every limit of
\* every type (each limit's both sides, where the model's integers reach).
EdgeValues ==
    LET lim == {0} \cup {TypeMin(T) : T \in IntTypes}
                   \cup {TypeMax(T) : T \in IntTypes}
        fits(l, d) == IF d < 0 THEN l >= TypeMin("int32_t") - d
                               ELSE l <= TypeMax("int32_t") - d
        near(l) == {l + d : d \in {e \in (0 - EdgeWidth) .. EdgeWidth : fits(l, e)}}
    IN  UNION {near(l) : l \in lim}

\* static_cast<T>(v): the value modulo 2^width, read in T's range.
\* (What an unchecked conversion would return; SafeCast never calls it.)
StaticCast(T, v) ==
    IF T = "int32_t" THEN v
    ELSE LET size == TypeMax(T) - TypeMin(T) + 1
             low  == v % size
         IN  IF low > TypeMax(T) THEN low - size ELSE low

\* util_intops::SafeAdd(a, b, &result): the sum when the result type holds
\* it (true, *result set), nothing otherwise (false, *result untouched).
\* Returned as the set of values stored in *result.
SafeAdd(a, b, OutT) ==
    IF Representable(OutT, a + b) THEN {a + b} ELSE {}

\* An unchecked conversion in place of the checked one.
SafeCastUnchecked(OutT, value) ==
    [pc |-> "returned", ret |-> {StaticCast(OutT, value)}]

\* OutT SafeCast(const InT value): CHECK(SafeAdd(value, 0, &result));
\* return result.
SafeCast(OutT, value) ==
    LET result == SafeAdd(value, 0, OutT)
    IN  IF result = {}
          THEN [pc |-> "aborted", ret |-> {}]
          ELSE [pc |-> "returned", ret |-> result]

InitCast ==
    /\ conv = Parked /\ guard = Parked /\ hash = Parked
    /\ hashLog = <<>> /\ addr = Parked
    /\ \E InT \in IntTypes, OutT \in IntTypes :
         \E value \in {v \in EdgeValues : Representable(InT, v)} :
           cast = [pc |-> "call", InT |-> InT, OutT |-> OutT, value |-> value,
                   ret |-> {}]

CallSafeCast ==
    /\ cast.pc = "call"
    /\ LET out == SafeCast(cast.OutT, cast.value)
       IN  cast' = [cast EXCEPT !.pc = out.pc, !.ret = out.ret]
    /\ UNCHANGED <<conv, guard, hash, hashLog, addr>>

NextSafeCast == CallSafeCast

SpecSafeCast == InitCast /\ [][NextSafeCast]_vars

\* C1: SafeCast returns its argument unchanged when the target type holds
\* it, and otherwise aborts without returning a value; what it returns is
\* never a truncated, wrapped or sign-changed value.
C1_SafeCastExact ==
    cast.pc \in {"returned", "aborted"} =>
      /\ Representable(cast.OutT, cast.value) =>
           cast.pc = "returned" /\ cast.ret = {cast.value}
      /\ ~Representable(cast.OutT, cast.value) =>
           cast.pc = "aborted" /\ cast.ret = {}
      /\ \A r \in cast.ret : r = cast.value

\* C1 witness: the cast of -1 from int16_t to uint8_t aborted, where the
\* unchecked conversion gives 255.
C1_Witness ==
    /\ cast.pc = "aborted"
    /\ cast.InT = "int16_t" /\ cast.OutT = "uint8_t" /\ cast.value = -1
    /\ StaticCast(cast.OutT, cast.value) = 255

----------------------------------------------------------------------------
(***************************************************************************)
(* ConvertToOps (definitions.h:213-221).                                  *)
(***************************************************************************)

\* The largest number of the enumerated operation set (the enum Op of
\* definitions.proto), which is taken to be 0 .. MaxOp here.
MaxOp == 3

OpNumbers == 0 .. MaxOp

\* The longest vector of raw integers converted.
MaxValues == 2

\* typedef int64_t IntegerT: the value hi * 2^32 + (lo mod 2^32), lo being
\* the low 32 bits read as a signed int.
IntegerT == [hi : {-1, 0, 1}, lo : -1 .. MaxOp + 1]

\* The IntegerT values that are the model integers themselves.
FitsInt(value) ==
    \/ value.hi = 0 /\ value.lo >= 0
    \/ value.hi = -1 /\ value.lo < 0

\* value is a member of the enumerated operation set.
IsOpNumber(value) == FitsInt(value) /\ value.lo \in OpNumbers

\* The conversion of an IntegerT to int (an argument passed to an int
\* parameter, or static_cast to an enum over int): the low 32 bits.
ToInt(value) == value.lo

\* bool Op_IsValid(int value), generated from the enum Op.
Op_IsValid(value) == value \in OpNumbers

\* static_cast<Op>(value): the operation numbered by the converted value.
StaticCastOp(value) == ToInt(value)

Vectors(S, n) == UNION {[1 .. k -> S] : k \in 0 .. n}

InitConv ==
    /\ cast = Parked /\ guard = Parked /\ hash = Parked
    /\ hashLog = <<>> /\ addr = Parked
    /\ \E values \in Vectors(IntegerT, MaxValues) :
         conv = [pc |-> "loop", values |-> values, i |-> 1,
                 converted_values |-> <<>>, ret |-> {}]

\* One iteration of the range-for: CHECK(Op_IsValid(value)), then
\* converted_values.push_back(static_cast<Op>(value)).
ConvertLoop ==
    /\ conv.pc = "loop"
    /\ conv.i <= Len(conv.values)
    /\ LET value == conv.values[conv.i]
       IN  IF Op_IsValid(ToInt(value))
             THEN conv' = [conv EXCEPT
                             !.converted_values = Append(@, StaticCastOp(value)),
                             !.i = @ + 1]
             ELSE conv' = [conv EXCEPT !.pc = "aborted"]
    /\ UNCHANGED <<cast, guard, hash, hashLog, addr>>

\* return converted_values.
ConvertReturn ==
    /\ conv.pc = "loop"
    /\ conv.i > Len(conv.values)
    /\ conv' = [conv EXCEPT !.pc = "returned", !.ret = {conv.converted_values}]
    /\ UNCHANGED <<cast, guard, hash, hashLog, addr>>

NextConvertToOps == ConvertLoop \/ ConvertReturn

SpecConvertToOps == InitConv /\ [][NextConvertToOps]_vars

\* C2: ConvertToOps returns, for a vector all of whose elements are members
\* of the enumerated operation set, the vector of the same length of the
\* operations they number; for a vector with an element outside the set it
\* aborts and returns no vector.
C2_ConvertToOpsValidates ==
    conv.pc \in {"returned", "aborted"} =>
      IF \A k \in DOMAIN conv.values : IsOpNumber(conv.values[k])
        THEN /\ conv.pc = "returned"
             /\ \E ops \in conv.ret :
                  /\ Len(ops) = Len(conv.values)
                  /\ \A k \in DOMAIN ops : ops[k] = conv.values[k].lo
        ELSE conv.pc = "aborted" /\ conv.ret = {}

----------------------------------------------------------------------------
(***************************************************************************)
(* The guard helpers (definitions.h:256-299).                             *)
(***************************************************************************)

\* The largest container passed to a guard; max_size goes one beyond it and
\* the numeric arguments from -MaxSize to MaxSize.
MaxSize == 3

Numerics == (0 - MaxSize) .. MaxSize

\* Containers (vectors, strings) of 0 .. MaxSize elements.
Containers == Vectors({"x"}, MaxSize)

\* Pointers: the null pointer and the addresses of objects.
nullptr == "nullptr"

Pointers == {nullptr, "p1", "p2"}

MaxSizes == 0 .. MaxSize + 1

Returned(value) == [pc |-> "returned", ret |-> {value}]

Aborted == [pc |-> "aborted", ret |-> {}]

\* The outcomes of a call whose behaviour is undefined.
Undefined(value) == {Returned(value), Aborted}

\* CHECK_GT(value, NumericT()) ; return value.
PositiveOrDie(value) ==
    IF value > 0 THEN Returned(value) ELSE Aborted

\* CHECK(value != nullptr) ; return value.
NotNullOrDie(value) ==
    IF value # nullptr THEN Returned(value) ELSE Aborted

\* CHECK(!value.empty()) ; return value.   (const ContainerT&)
NonEmptyOrDieConstRef(value) ==
    IF ~(Len(value) = 0) THEN Returned(value) ELSE Aborted

\* CHECK(!value.empty()) ; return value.   (ContainerT&)
NonEmptyOrDieRef(value) ==
    IF ~(Len(value) = 0) THEN Returned(value) ELSE Aborted

\* CHECK(!value->empty()) ; return value.  (ContainerT*, pointing at pointee)
NonEmptyOrDiePtr(value, pointee) ==
    IF ~(Len(pointee) = 0) THEN Returned(value) ELSE Aborted

\* The same check with <= in place of <.
SizeLessThanOrDieInclusive(value, max_size) ==
    IF Len(value) <= max_size THEN Returned(value) ELSE Aborted

\* CHECK_LT(value.size(), max_size) ; return value.   (const ContainerT&)
SizeLessThanOrDieConstRef(value, max_size) ==
    IF Len(value) < max_size THEN Returned(value) ELSE Aborted

\* CHECK_LT(value.size(), max_size) ; return value.   (ContainerT&)
SizeLessThanOrDieRef(value, max_size) ==
    IF Len(value) < max_size THEN Returned(value) ELSE Aborted

\* CHECK_LT(value->size(), max_size) ; return value.  (ContainerT*)
SizeLessThanOrDiePtr(value, pointee, max_size) ==
    IF Len(pointee) < max_size THEN Returned(value) ELSE Aborted

GuardCall(fn, arg, pointee, max_size, out) ==
    guard' = [pc |-> out.pc, fn |-> fn, arg |-> arg, pointee |-> pointee,
              max_size |-> max_size, ret |-> out.ret]

NotGuards == UNCHANGED <<cast, conv, hash, hashLog, addr>>

InitGuard ==
    /\ cast = Parked /\ conv = Parked /\ hash = Parked
    /\ hashLog = <<>> /\ addr = Parked
    /\ guard = [pc |-> "idle"]

CallPositiveOrDie ==
    /\ \E value \in Numerics :
         GuardCall("PositiveOrDie", value, <<>>, 0, PositiveOrDie(value))
    /\ NotGuards

CallNotNullOrDie ==
    /\ \E value \in Pointers :
         GuardCall("NotNullOrDie", value, <<>>, 0, NotNullOrDie(value))
    /\ NotGuards

CallNonEmptyOrDieConstRef ==
    /\ \E value \in Containers :
         GuardCall("NonEmptyOrDie(const&)", value, value, 0,
                   NonEmptyOrDieConstRef(value))
    /\ NotGuards

CallNonEmptyOrDieRef ==
    /\ \E value \in Containers :
         GuardCall("NonEmptyOrDie(&)", value, value, 0, NonEmptyOrDieRef(value))
    /\ NotGuards

\* A null ContainerT* is dereferenced by value->empty(): undefined.
CallNonEmptyOrDiePtr ==
    /\ \/ \E value \in Pointers \ {nullptr}, pointee \in Containers :
            GuardCall("NonEmptyOrDie(*)", value, pointee, 0,
                      NonEmptyOrDiePtr(value, pointee))
       \/ \E out \in Undefined(nullptr) :
            GuardCall("NonEmptyOrDie(*)", nullptr, <<>>, 0, out)
    /\ NotGuards

CallSizeLessThanOrDieConstRef ==
    /\ \E value \in Containers, max_size \in MaxSizes :
         GuardCall("SizeLessThanOrDie(const&)", value, value, max_size,
                   SizeLessThanOrDieConstRef(value, max_size))
    /\ NotGuards

CallSizeLessThanOrDieRef ==
    /\ \E value \in Containers, max_size \in MaxSizes :
         GuardCall("SizeLessThanOrDie(&)", value, value, max_size,
                   SizeLessThanOrDieRef(value, max_size))
    /\ NotGuards

\* A null ContainerT* is dereferenced by value->size(): undefined.
CallSizeLessThanOrDiePtr ==
    /\ \/ \E value \in Pointers \ {nullptr}, pointee \in Containers,
             max_size \in MaxSizes :
            GuardCall("SizeLessThanOrDie(*)", value, pointee, max_size,
                      SizeLessThanOrDiePtr(value, pointee, max_size))
       \/ \E out \in Undefined(nullptr), max_size \in MaxSizes :
            GuardCall("SizeLessThanOrDie(*)", nullptr, <<>>, max_size, out)
    /\ NotGuards

NextGuards ==
    \/ CallPositiveOrDie
    \/ CallNotNullOrDie
    \/ CallNonEmptyOrDieConstRef
    \/ CallNonEmptyOrDieRef
    \/ CallNonEmptyOrDiePtr
    \/ CallSizeLessThanOrDieConstRef
    \/ CallSizeLessThanOrDieRef
    \/ CallSizeLessThanOrDiePtr

SpecGuards == InitGuard /\ [][NextGuards]_vars

NonEmptyFns == {"NonEmptyOrDie(const&)", "NonEmptyOrDie(&)", "NonEmptyOrDie(*)"}

SizeLessThanFns ==
    {"SizeLessThanOrDie(const&)", "SizeLessThanOrDie(&)", "SizeLessThanOrDie(*)"}

\* The precondition of the guard called, on the argument it was called with.
GuardPrecondition ==
    CASE guard.fn = "PositiveOrDie"   -> guard.arg > 0
      [] guard.fn = "NotNullOrDie"    -> guard.arg # nullptr
      [] guard.fn \in NonEmptyFns     -> Len(guard.pointee) > 0
      [] guard.fn \in SizeLessThanFns -> Len(guard.pointee) < guard.max_size

\* The call handed a container guard a null pointer instead of a container.
NoContainer ==
    guard.fn \in {"NonEmptyOrDie(*)", "SizeLessThanOrDie(*)"} /\ guard.arg = nullptr

\* C9: each guard helper returns its argument unchanged exactly when its
\* precondition holds and aborts otherwise: PositiveOrDie aborts for zero
\* and for negative values, NotNullOrDie for a null pointer, NonEmptyOrDie
\* for an empty container, SizeLessThanOrDie for a container whose size is
\* max_size or more.
C9_GuardsStrict ==
    (guard.pc # "idle" /\ ~NoContainer) =>
      /\ GuardPrecondition => guard.pc = "returned" /\ guard.ret = {guard.arg}
      /\ ~GuardPrecondition => guard.pc = "aborted" /\ guard.ret = {}

\* C9 witness: SizeLessThanOrDie aborted on a container of exactly max_size
\* elements.
C9_Witness ==
    /\ guard.pc = "aborted"
    /\ guard.fn = "SizeLessThanOrDie(const&)"
    /\ Len(guard.arg) = guard.max_size
    /\ guard.max_size > 0

----------------------------------------------------------------------------
(***************************************************************************)
(* CustomHashMix (definitions.h:333-351) over HashMix (util/hash/mix.h).  *)
(***************************************************************************)

\* A size_t: eight bytes, least significant first.
WordBytes == 1 .. 8

\* NumberT is RandomSeedT, a uint32: four bytes, least significant first.
NumberBytes == 1 .. 4

\* The numbers mixed: 1 and 2.
NumberValues == {<<1, 0, 0, 0>>, <<2, 0, 0, 0>>}

\* The longest vector mixed.
MaxNumbers == 2

\* The number of completed calls the log keeps.
MaxCalls == 1

\* static_cast<size_t>(number): the number, zero-extended.
ToSizeT(number) == [i \in WordBytes |-> IF i \in NumberBytes THEN number[i] ELSE 0]

\* The conversion of a size_t to NumberT at the return: its low four bytes.
ToNumberT(word) == [i \in NumberBytes |-> word[i]]

\* a + b modulo 2^64.
Add64(a, b) ==
    LET carry[i \in 0 .. 8] ==
          IF i = 0 THEN 0 ELSE (a[i] + b[i] + carry[i - 1]) \div 256
    IN  [i \in WordBytes |-> (a[i] + b[i] + carry[i - 1]) % 256]

\* a * b modulo 2^64.
Mul64(a, b) ==
    LET column(k) ==
          LET sum[i \in 0 .. k] ==
                IF i = 0 THEN 0 ELSE sum[i - 1] + a[i] * b[k + 1 - i]
          IN  sum[k]
        carry[k \in 0 .. 8] ==
          IF k = 0 THEN 0 ELSE (column(k) + carry[k - 1]) \div 256
    IN  [k \in WordBytes |-> (column(k) + carry[k - 1]) % 256]

\* (w << n) | (w >> (64 - n)), for 0 <= n < 64.
RotateLeft(w, n) ==
    LET bytes == n \div 8
        bits  == n % 8
        moved == [i \in WordBytes |-> w[((i - 1 - bytes) % 8) + 1]]
    IN  [i \in WordBytes |->
           ((moved[i] * (2 ^ bits)) % 256)
             + (moved[((i - 2) % 8) + 1] \div (2 ^ (8 - bits)))]

\* HashMix::kMul, 0xdc3eb94af8ab4c93.
kMul == <<147, 76, 171, 248, 74, 185, 62, 220>>

\* HashMix::HashMix() : hash_(1).
HashMix_Init == <<1, 0, 0, 0, 0, 0, 0, 0>>

\* HashMix::Mix(val): hash_ *= kMul; hash_ = rotate-left(hash_, 19) + val.
HashMix_Mix(hash_, val) == Add64(RotateLeft(Mul64(hash_, kMul), 19), val)

\* HashMix::get().
HashMix_get(hash_) == hash_

\* An accumulator that outlives the call (a static local).
HashMixStatic(stale) == stale

\* "HashMix mix;": a local of the call, default-constructed, whatever the
\* memory held before.
HashMixLocal(stale) == HashMix_Init

\* A loop over the numbers from the last to the first.
NumberBackwards(numbers, done) == numbers[Len(numbers) - done]

\* "for (const NumberT number : numbers)": the number the iteration after
\* `done` iterations takes.
NumberInLoop(numbers, done) == numbers[done + 1]

\* The vector {second, first}.
SwappedVector(first, second) == <<second, first>>

\* The vector the two-argument form builds: {first, second}.
PairVector(first, second) == <<first, second>>

NotHash == UNCHANGED <<cast, conv, guard, addr>>

InitHash ==
    /\ cast = Parked /\ conv = Parked /\ guard = Parked /\ addr = Parked
    /\ hashLog = <<>>
    /\ hash = [pc |-> "idle", form |-> "none", args |-> <<>>, numbers |-> <<>>,
               done |-> 0, mix |-> [i \in WordBytes |-> 0], mixed |-> <<>>,
               ret |-> <<>>, logged |-> FALSE]

\* CustomHashMix(const std::vector<NumberT>& numbers) is called.
CallVector ==
    /\ hash.pc \in {"idle", "returned"}
    /\ \E numbers \in Vectors(NumberValues, MaxNumbers) :
         hash' = [hash EXCEPT !.pc = "construct", !.form = "vector",
                              !.args = numbers, !.numbers = numbers,
                              !.done = 0, !.mixed = <<>>, !.ret = <<>>,
                              !.logged = FALSE]
    /\ UNCHANGED hashLog
    /\ NotHash

\* CustomHashMix(NumberT first, NumberT second) is called, and calls
\* CustomHashMix<NumberT>({first, second}).
CallPair ==
    /\ hash.pc \in {"idle", "returned"}
    /\ \E first \in NumberValues, second \in NumberValues :
         hash' = [hash EXCEPT !.pc = "construct", !.form = "pair",
                              !.args = <<first, second>>,
                              !.numbers = PairVector(first, second),
                              !.done = 0, !.mixed = <<>>, !.ret = <<>>,
                              !.logged = FALSE]
    /\ UNCHANGED hashLog
    /\ NotHash

\* HashMix mix;
Construct ==
    /\ hash.pc = "construct"
    /\ hash' = [hash EXCEPT !.pc = "loop", !.mix = HashMixLocal(hash.mix),
                             !.mixed = <<>>]
    /\ UNCHANGED hashLog
    /\ NotHash

\* mix.Mix(static_cast<size_t>(number));
MixLoop ==
    /\ hash.pc = "loop"
    /\ hash.done < Len(hash.numbers)
    /\ LET number == NumberInLoop(hash.numbers, hash.done)
       IN  hash' = [hash EXCEPT !.mix = HashMix_Mix(hash.mix, ToSizeT(number)),
                                !.mixed = Append(@, number),
                                !.done = @ + 1]
    /\ UNCHANGED hashLog
    /\ NotHash

\* return mix.get();  The log takes the call or not, while it has room.
MixReturn ==
    /\ hash.pc = "loop"
    /\ hash.done = Len(hash.numbers)
    /\ LET ret == ToNumberT(HashMix_get(hash.mix))
       IN  \/ /\ Len(hashLog) < MaxCalls
              /\ hashLog' = Append(hashLog, [form |-> hash.form,
                                             args |-> hash.args, ret |-> ret])
              /\ hash' = [hash EXCEPT !.pc = "returned", !.ret = ret,
                                      !.logged = TRUE]
           \/ /\ hashLog' = hashLog
              /\ hash' = [hash EXCEPT !.pc = "returned", !.ret = ret,
                                      !.logged = FALSE]
    /\ NotHash

NextHashMix == CallVector \/ CallPair \/ Construct \/ MixLoop \/ MixReturn

SpecHashMix == InitHash /\ [][NextHashMix]_vars

\* The calls that have returned: the logged ones and the latest.
Completed ==
    {hashLog[k] : k \in DOMAIN hashLog}
      \cup (IF hash.pc = "returned"
              THEN {[form |-> hash.form, args |-> hash.args, ret |-> hash.ret]}
              ELSE {})

\* C3: mixing is deterministic: two calls of the same form with the same
\* arguments return the same value, however many calls, on whatever
\* arguments, were made before each.
C3_MixDeterministic ==
    \A e1 \in Completed, e2 \in Completed :
      (e1.form = e2.form /\ e1.args = e2.args) => e1.ret = e2.ret

\* C3 witness: a later call returned what the logged call had returned on
\* the same two numbers.
C3_Witness ==
    /\ hash.pc = "returned" /\ hash.form = "vector" /\ Len(hash.args) = 2
    /\ ~hash.logged
    /\ \E k \in DOMAIN hashLog :
         /\ hashLog[k].form = "vector" /\ hashLog[k].args = hash.args
         /\ hashLog[k].ret = hash.ret

\* C4: mixing is order-sensitive: the numbers are folded into the
\* accumulator in the order of the sequence, and the calls on [a, b] and on
\* [b, a], for the numbers a # b of the model (1 and 2), return different
\* values.
C4_MixOrderSensitive ==
    /\ hash.pc \in {"loop", "returned"} =>
         hash.mixed = SubSeq(hash.numbers, 1, hash.done)
    /\ \A e1 \in Completed, e2 \in Completed :
         ( /\ e1.form = "vector" /\ e2.form = "vector"
           /\ Len(e1.args) = 2 /\ Len(e2.args) = 2
           /\ e1.args[1] # e1.args[2]
           /\ e2.args = <<e1.args[2], e1.args[1]>> ) => e1.ret # e2.ret

\* C4 witness: the calls on [1, 2] and on [2, 1] have both returned, with
\* different values.
C4_Witness ==
    /\ hash.pc = "returned" /\ hash.form = "vector"
    /\ hash.args = <<<<2, 0, 0, 0>>, <<1, 0, 0, 0>>>>
    /\ \E k \in DOMAIN hashLog :
         /\ hashLog[k].form = "vector"
         /\ hashLog[k].args = <<<<1, 0, 0, 0>>, <<2, 0, 0, 0>>>>
         /\ hashLog[k].ret # hash.ret

\* C5: the two-argument form mixes the vector [first, second], and returns
\* what the vector form returns on that vector.
C5_PairIsVector ==
    /\ (hash.form = "pair" /\ hash.pc # "idle") => hash.numbers = hash.args
    /\ \A e1 \in Completed, e2 \in Completed :
         (e1.form = "pair" /\ e2.form = "vector" /\ e2.args = e1.args)
           => e1.ret = e2.ret

\* C5 witness: the two-argument form on two different numbers returned what
\* the vector form had returned on them.
C5_Witness ==
    /\ hash.pc = "returned" /\ hash.form = "pair"
    /\ hash.args[1] # hash.args[2]
    /\ \E k \in DOMAIN hashLog :
         /\ hashLog[k].form = "vector" /\ hashLog[k].args = hash.args
         /\ hashLog[k].ret = hash.ret

----------------------------------------------------------------------------
(***************************************************************************)
(* The typed memories' addresses (definitions.h:67-75, 150-170).          *)
(***************************************************************************)

MAX_SCALAR_ADDRESSES == 20

MAX_VECTOR_ADDRESSES == 20

MAX_MATRIX_ADDRESSES == 20

\* typedef uint16_t AddressT: the largest address, and the conversion of an
\* integer constant to AddressT.
AddressTMax == 65535

ToAddressT(n) == n % (AddressTMax + 1)

kLabelsScalarAddress == 0

kPredictionsScalarAddress == 1

kFirstOutScalarAddress == 1

kMaxScalarAddresses == ToAddressT(MAX_SCALAR_ADDRESSES)

kFeaturesVectorAddress == 0

kFirstOutVectorAddress == 1

kLabelsVectorAddress == 1

kPredictionsVectorAddress == 2

\* A vector memory too small for its reserved addresses.
kMaxVectorAddressesTooFew == kPredictionsVectorAddress

kMaxVectorAddresses == ToAddressT(MAX_VECTOR_ADDRESSES)

kFirstOutMatrixAddress == 0

kMaxMatrixAddresses == ToAddressT(MAX_MATRIX_ADDRESSES)

Spaces == {"scalar", "vector", "matrix"}

\* The capacity of each address space.
Capacity(space) ==
    CASE space = "scalar" -> kMaxScalarAddresses
      [] space = "vector" -> kMaxVectorAddresses
      [] space = "matrix" -> kMaxMatrixAddresses

\* The reserved addresses of each address space.
Reserved(space) ==
    CASE space = "scalar" ->
           {kLabelsScalarAddress, kPredictionsScalarAddress, kFirstOutScalarAddress}
      [] space = "vector" ->
           {kFeaturesVectorAddress, kFirstOutVectorAddress, kLabelsVectorAddress,
            kPredictionsVectorAddress}
      [] space = "matrix" -> {kFirstOutMatrixAddress}

\* The addresses tried go this far beyond the largest capacity.
BeyondCapacity == 10

\* The addresses an instruction is given: from 0 to beyond every capacity,
\* and the largest AddressT.
Addresses ==
    LET top == IF kMaxScalarAddresses >= kMaxVectorAddresses
                    /\ kMaxScalarAddresses >= kMaxMatrixAddresses
                 THEN kMaxScalarAddresses
                 ELSE IF kMaxVectorAddresses >= kMaxMatrixAddresses
                        THEN kMaxVectorAddresses ELSE kMaxMatrixAddresses
    IN  {a \in 0 .. top + BeyondCapacity : a <= AddressTMax} \cup {AddressTMax}

\* The validation of an address reference: below the capacity of its space.
AddressAccepted(space, address) == address < Capacity(space)

InitAddress ==
    /\ cast = Parked /\ conv = Parked /\ guard = Parked /\ hash = Parked
    /\ hashLog = <<>>
    /\ \E space \in Spaces, address \in Addresses :
         addr = [pc |-> "new", space |-> space, address |-> address]

\* An instruction's address reference is validated.
ValidateAddress ==
    /\ addr.pc = "new"
    /\ addr' = [addr EXCEPT !.pc = IF AddressAccepted(addr.space, addr.address)
                                     THEN "accepted" ELSE "rejected"]
    /\ UNCHANGED <<cast, conv, guard, hash, hashLog>>

\* The instruction is executed: only once its reference was accepted.
ExecuteInstruction ==
    /\ addr.pc = "accepted"
    /\ addr' = [addr EXCEPT !.pc = "executed"]
    /\ UNCHANGED <<cast, conv, guard, hash, hashLog>>

NextAddress == ValidateAddress \/ ExecuteInstruction

SpecAddress == InitAddress /\ [][NextAddress]_vars

====
